---------------------------- MODULE Spec2Model ----------------------------
(***************************************************************************)
(* Appointment scheduler: the booking wizard (src/src/Components/App.js),  *)
(* the express server (src/app.js) and the external booking store.         *)
(*                                                                         *)
(* JavaScript values are encoded as follows.                               *)
(*   - a calendar day (a moment at startOf('day')) is a day number;        *)
(*   - a formatted date is the tuple of its fields in the order the format *)
(*     string writes them: 'YYYY-DD-MM' gives <<year, day, month>>;        *)
(*   - a string typed by the user is a tuple of one-character strings;     *)
(*   - undefined is NoDate / NoSlot / Undefined, by the type of the field; *)
(*   - a schedule entry is FullyBooked (the value true) or Bitmap(b) (an   *)
(*     array b); a key that is absent from the object is absent from the   *)
(*     DOMAIN of the function.                                             *)
(***************************************************************************)
EXTENDS Integers, Sequences, FiniteSets, TLC

\* ------------------------------------------------------------------ bounds
\* days are numbered 0..MaxDay
MaxDay == 2
\* the wall clock at page load is one of the days 0..MaxStartDay
MaxStartDay == 1
\* SpecBuild draws every list of at most MaxRecords stored records
MaxRecords == 2
\* at most MaxPosts bookings are posted in a run
MaxPosts == 1
\* SpecResubmit lets the Confirm button send up to MaxReposts POSTs
MaxReposts == 2
\* the admin view: Delete is pressed at most MaxDeletes times, and at most
\* MaxTimers setTimeout callbacks are pending
MaxDeletes == 1
MaxTimers == 2

\* ------------------------------------------------------- program constants
\* Array(8): the number of one-hour slots of a day
NumSlots == 8
\* moment().hour(9): the hour at which slot 0 starts
DayStartHour == 9

Days == 0..MaxDay
Slots == 0..(NumSlots - 1)

\* ------------------------------------------------------------ moment dates
\* The calendar the day numbers live in: day 0 is 29 June 2024, so that the
\* days cross a month boundary and day and month fields are distinguishable.
NoDate == -1
InvalidDay == -2

DayOfMonth(n) == IF n < 2 THEN 29 + n ELSE n - 1
MonthOf(n) == IF n < 2 THEN 6 ELSE 7

InvalidDate == <<0, 0, 0>>

\* moment(day).format('YYYY-DD-MM'): year, then DAY, then MONTH
FormatYDM(n) == IF n \in Days THEN <<2024, DayOfMonth(n), MonthOf(n)>> ELSE InvalidDate

\* moment(string, 'YYYY-DD-MM'): the fields are read in the same order
ParseYDM(s) ==
  IF \E n \in Days : s[1] = 2024 /\ s[2] = DayOfMonth(n) /\ s[3] = MonthOf(n)
    THEN CHOOSE n \in Days : s[1] = 2024 /\ s[2] = DayOfMonth(n) /\ s[3] = MonthOf(n)
    ELSE InvalidDay

\* --------------------------------------------------------------- slot clock
\* moment().hour(9).minute(0).add(slot, 'hours'): the hour of the slot start
SlotStartHourLateBug(slot) == DayStartHour + slot + 1

SlotStartHour(slot) == DayStartHour + slot

\* t1.format('a')
MeridiemOf(hour) == IF hour < 12 THEN "am" ELSE "pm"

\* time.format('h:mm a') for a whole hour
FormatHMMA(hour) == <<((hour + 11) % 12) + 1, 0, MeridiemOf(hour)>>

\* the label of the slot's RadioButton: t1.format('h:mm a') + ' - ' + t2.format('h:mm a')
SlotLabel(slot) ==
  [from |-> FormatHMMA(SlotStartHour(slot)), to |-> FormatHMMA(SlotStartHour(slot + 1))]

\* ---------------------------------------------------------- schedule values
FullyBooked == [full |-> TRUE, slots |-> <<>>]
Bitmap(b) == [full |-> FALSE, slots |-> b]
IsArray(entry) == ~entry.full

\* Array(8).fill(false)
EmptyBitmap == Bitmap([i \in 1..NumSlots |-> FALSE])

\* schedule[key] = value on a JavaScript object
PutEntry(sched, key, value) ==
  [k \in (DOMAIN sched) \cup {key} |-> IF k = key THEN value ELSE sched[k]]

\* currentSchedule[dateString][slot] = true (slot is a 0-based index)
MarkToggleBug(entry, slot) ==
  Bitmap([entry.slots EXCEPT ![slot + 1] = ~entry.slots[slot + 1]])

MarkShiftBug(entry, slot) ==
  Bitmap([entry.slots EXCEPT ![((slot + 1) % NumSlots) + 1] = TRUE])

MarkSlot(entry, slot) == Bitmap([entry.slots EXCEPT ![slot + 1] = TRUE])

\* the body of the reduce callback of handleFetch
ReduceStep(currentSchedule, appointment) ==
  LET date == appointment.date
      slot == appointment.slot
      dateString == FormatYDM(ParseYDM(date))
      s1 == IF date \notin DOMAIN currentSchedule
              THEN PutEntry(currentSchedule, dateString, EmptyBitmap)
              ELSE currentSchedule
  IN IF dateString \in DOMAIN s1 /\ IsArray(s1[dateString])
       THEN PutEntry(s1, dateString, MarkSlot(s1[dateString], slot))
       ELSE s1

RECURSIVE Reduce(_, _)
Reduce(appointments, acc) ==
  IF appointments = <<>> THEN acc
  ELSE Reduce(Tail(appointments), ReduceStep(acc, Head(appointments)))

\* initSchedule[today.format('YYYY-DD-MM')] = true
InitScheduleNoSeedBug(today) == [k \in {} |-> FullyBooked]

InitSchedule(today) == [k \in {FormatYDM(today)} |-> FullyBooked]

\* the for..in loop of handleFetch: an array whose slots are all true becomes true
CollapseNeverBug(sched) == sched

Collapse(sched) ==
  [day \in DOMAIN sched |->
     IF IsArray(sched[day]) /\ Len(sched[day].slots) # 0
        /\ \A i \in 1..Len(sched[day].slots) : sched[day].slots[i] = TRUE
       THEN FullyBooked
       ELSE sched[day]]

\* the schedule handleFetch stores, from response.appointments and the clock
BuildSchedule(appointments, today) ==
  Collapse(IF Len(appointments) = 0
             THEN InitSchedule(today)
             ELSE Reduce(appointments, InitSchedule(today)))


\* ------------------------------------------------------------------ strings
Undefined == <<"undefined">>
NoSlot == -1

Digits == {"0", "1", "2", "3", "4", "5", "6", "7", "8", "9"}

\* a value in a boolean context: undefined and '' are falsy
Truthy(str) == str # Undefined /\ str # <<>>

SubStr(s, from, to) == [i \in 1..(to - from + 1) |-> s[from + i - 1]]

\* [^<>()\[\]\.,;:\s@\"]
EmailAtomChar(c) ==
  c \notin {"<", ">", "(", ")", "[", "]", ".", ",", ";", ":", " ", "@", "\""}

\* [^...]+(\.[^...]+)* : non-empty runs of atom characters separated by dots
DottedAtoms(s) ==
  /\ Len(s) > 0
  /\ s[1] # "." /\ s[Len(s)] # "."
  /\ \A i \in 1..Len(s) : s[i] = "." \/ EmailAtomChar(s[i])
  /\ \A i \in 1..(Len(s) - 1) : ~(s[i] = "." /\ s[i + 1] = ".")

\* (\".+\")
QuotedLocal(s) == Len(s) >= 3 /\ s[1] = "\"" /\ s[Len(s)] = "\""

\* (([^...]+\.)+[^...]{2,}) : at least one dot, and a last label of 2 or more
EmailDomain(s) ==
  /\ DottedAtoms(s)
  /\ \E i \in 1..Len(s) : s[i] = "."
  /\ Len(s) >= 2 /\ s[Len(s)] # "." /\ s[Len(s) - 1] # "."

\* regex.test(email) of validateEmail
EmailRegexTest(s) ==
  /\ s # Undefined
  /\ \E at \in 1..Len(s) :
       /\ s[at] = "@"
       /\ LET local == SubStr(s, 1, at - 1)
              domain == SubStr(s, at + 1, Len(s))
          IN /\ DottedAtoms(local) \/ QuotedLocal(local)
             /\ EmailDomain(domain)

\* the shapes ^(1\s|1|)?((\(\d{3}\))|\d{3})(\-|\s)?(\d{3})(\-|\s)?(\d{4})$ accepts;
\* "d" stands for \d, every other token for itself
PhoneShapes ==
  LET D3 == <<"d", "d", "d">>
      D4 == <<"d", "d", "d", "d">>
      prefixes == {<<>>, <<"1">>, <<"1", " ">>}
      areas == {<<"(">> \o D3 \o <<")">>, D3}
      seps == {<<>>, <<"-">>, <<" ">>}
  IN {p \o a \o s1 \o D3 \o s2 \o D4 :
        p \in prefixes, a \in areas, s1 \in seps, s2 \in seps}

MatchesShape(s, shape) ==
  /\ Len(s) = Len(shape)
  /\ \A i \in 1..Len(s) :
       IF shape[i] = "d" THEN s[i] \in Digits ELSE s[i] = shape[i]

\* regex.test(phoneNumber) of validatePhone
PhoneRegexTest(s) == s # Undefined /\ \E shape \in PhoneShapes : MatchesShape(s, shape)

\* appointment.phone.replace(/\D/g,'')
IsDigit(c) == c \in Digits
StripNothingBug(s) == s

StripNonDigits(s) == SelectSeq(s, IsDigit)

\* ------------------------------------------------------------------- inputs
\* what the user may type into the contact fields
NameInputs == {<<"J", "o">>}
EmailInputs == {<<"a", "@", "b", ".", "c", "o">>, <<"a", "@", "b">>}
PhoneInputs ==
  { <<"(", "8", "8", "8", ")", " ", "8", "8", "8", "-", "8", "8", "8", "8">>,
    <<"1", "2", "3", "4", "5">> }

\* a record of the booking store, as app.post writes it
StoreRecord(dateString, slot, name, email, phone) ==
  [date |-> dateString, slot |-> slot, name |-> name, email |-> email, phone |-> phone]

\* the object as the bucket holds it, under the slug Cosmic gave it
WithSlug(object, slug) ==
  [ slug |-> slug, date |-> object.date, slot |-> object.slot, name |-> object.name,
    email |-> object.email, phone |-> object.phone ]

\* a slug no object of the bucket has
NewSlug(objects) ==
  LET used == {objects[i].slug : i \in 1..Len(objects)}
  IN IF used = {} THEN 1 ELSE 1 + CHOOSE m \in used : \A n \in used : n <= m

\* POST /v1/<bucket>/add-object: the bucket with the object added
AddObject(objects, object) == Append(objects, WithSlug(object, NewSlug(objects)))

\* the bucket that holds the objects of `list`, added in that order
Bucket(list) == [i \in 1..Len(list) |-> WithSlug(list[i], i)]

\* a booking made in an earlier session
Earlier(day, slot) ==
  StoreRecord(FormatYDM(day), slot, <<"A", " ", "B">>, <<"c", "@", "d", ".", "e", "e">>,
              <<"5", "5", "5", "1", "2", "3", "4", "5", "6", "7">>)

\* the records of day `day` for the slots 0..n-1
SlotsFilled(day, n) == [i \in 1..n |-> Earlier(day, i - 1)]

\* -------------------------------------------------------------------- state
VARIABLES
  now,                          \* the wall clock, as a day number: moment()
  store,                        \* the appointments objects of the Cosmic bucket
  sms,                          \* the messages handed to twilioClient.messages.create
  requests,                     \* POST /api/appointments bodies on their way to the server
  responses,                    \* settled POSTs on their way to the client's then/catch
  posts,                        \* the number of POSTs handleSubmit has sent
  mountStep,                    \* the task async.series is waiting on in componentWillMount
  response,                     \* response.appointments, as handed to handleFetch
  loading, stepIndex, appointmentDate, appointmentSlot, appointmentMeridiem,
  schedule, firstName, lastName, email, phone, validEmail, validPhone,
  emailField, phoneField,       \* the text in the (uncontrolled) email and phone TextFields
  confirmationModalOpen, confirmationSnackbarOpen, confirmationSnackbarMessage,
  confirmationTextVisible, processed,
  peer,                         \* a second browser session on the same server
  admin,                        \* this.state of the appointment manager
  timers,                       \* the pending setTimeout callbacks of handleRowSelection
  deletes,                      \* the Cosmic.deleteObject calls under way
  fetches,                      \* the Cosmic.getObjectType calls under way
  pressed                       \* the number of times Delete was pressed

clockVars == <<now>>
serverVars == <<store, sms>>
netVars == <<requests, responses, posts>>
mountVars == <<mountStep, response, loading, schedule>>
pickVars == <<stepIndex, appointmentDate, appointmentSlot, appointmentMeridiem,
              confirmationTextVisible>>
contactVars == <<firstName, lastName, email, phone, validEmail, validPhone,
                 emailField, phoneField>>
dialogVars == <<confirmationModalOpen, confirmationSnackbarOpen,
                confirmationSnackbarMessage, processed>>
peerVars == <<peer>>
adminVars == <<admin, timers, deletes, fetches, pressed>>
vars == <<clockVars, serverVars, netVars, mountVars, pickVars, contactVars, dialogVars,
          peerVars, adminVars>>

\* this.state.schedule is undefined until handleFetch sets it
NoSchedule == [defined |-> FALSE, days |-> [k \in {} |-> FullyBooked]]
SetSchedule(days) == [defined |-> TRUE, days |-> days]

\* ------------------------------------------------------------ derived views
\* moment(this.state.appointmentDate): moment(undefined) is the current time
MomentOf(date) == IF date = NoDate THEN now ELSE date

\* checkDisableDate(day)
CheckDisableDateNoPastBug(day) ==
  LET dateString == FormatYDM(day)
  IN dateString \in DOMAIN schedule.days /\ schedule.days[dateString] = FullyBooked

CheckDisableDateSignBug(day) ==
  LET dateString == FormatYDM(day)
  IN \/ dateString \in DOMAIN schedule.days /\ schedule.days[dateString] = FullyBooked
     \/ day - now > 0

CheckDisableDate(day) ==
  LET dateString == FormatYDM(day)
  IN \/ dateString \in DOMAIN schedule.days /\ schedule.days[dateString] = FullyBooked
     \/ day - now < 0

\* scheduleDisabled of renderAppointmentTimes: true[slot] is undefined
ScheduleDisabled(slot) ==
  LET appointmentDateString == FormatYDM(MomentOf(appointmentDate))
  IN IF appointmentDateString \in DOMAIN schedule.days
       THEN LET entry == schedule.days[appointmentDateString]
            IN IF IsArray(entry) THEN entry.slots[slot + 1] ELSE FALSE
       ELSE FALSE

\* meridiemDisabled of renderAppointmentTimes
MeridiemDisabledNeverBug(slot) == FALSE

MeridiemDisabled(slot) ==
  LET a == MeridiemOf(SlotStartHour(slot))
  IN IF appointmentMeridiem # 0 THEN a = "am" ELSE a = "pm"

\* the disabled prop of the slot's RadioButton (display: none goes with meridiemDisabled)
RadioDisabled(slot) == ScheduleDisabled(slot) \/ MeridiemDisabled(slot)

\* contactFormFilled of render
ContactFormFilledNoValidBug ==
  Truthy(firstName) /\ Truthy(lastName) /\ Truthy(phone) /\ Truthy(email)

ContactFormFilled ==
  /\ Truthy(firstName) /\ Truthy(lastName) /\ Truthy(phone) /\ Truthy(email)
  /\ validPhone /\ validEmail

\* handleNextStep
NextStepIndexSkipBug(i) == IF i < 3 THEN i + 2 ELSE i

NextStepIndex(i) == IF i < 3 THEN i + 1 ELSE i

\* ------------------------------------------------------------ initial state
\* the constructor of App, with the requests of componentWillMount under way
InitClient ==
  /\ mountStep = "configs"
  /\ response = <<>>
  /\ loading = TRUE
  /\ schedule = NoSchedule
  /\ stepIndex = 0
  /\ appointmentDate = NoDate
  /\ appointmentSlot = NoSlot
  /\ appointmentMeridiem = 0
  /\ confirmationTextVisible = FALSE
  /\ firstName = Undefined /\ lastName = Undefined
  /\ email = Undefined /\ phone = Undefined
  /\ validEmail = TRUE /\ validPhone = TRUE
  /\ emailField = <<>> /\ phoneField = <<>>
  /\ confirmationModalOpen = FALSE
  /\ confirmationSnackbarOpen = FALSE
  /\ confirmationSnackbarMessage = "undefined"
  /\ processed = FALSE
  /\ requests = <<>> /\ responses = <<>> /\ posts = 0
  /\ sms = <<>>

Bookings == {Earlier(d, s) : d \in Days, s \in Slots}
SeqsUpTo(S, n) == UNION {[1..k -> S] : k \in 0..n}

\* the slots left free on day d by the stores of MainStores: one in the
\* morning and one in the afternoon, not the same ones from day to day
FreeSlots(d) == {d % 3, 3 + (d % 5)}

\* the bookings of day d for the slots in `taken`, in slot order
DayBookings(d, taken) ==
  LET Keep(record) == record.slot \in taken
  IN SelectSeq(SlotsFilled(d, NumSlots), Keep)

RECURSIVE BusyFrom(_, _)
BusyFrom(d, full) ==
  IF d > MaxDay THEN <<>>
  ELSE DayBookings(d, IF d = full THEN Slots ELSE Slots \ FreeSlots(d))
         \o BusyFrom(d + 1, full)

\* the stores the whole wizard is explored on: every day is booked except for
\* its FreeSlots, and day 1 may be booked out
MainStores == {BusyFrom(0, full) : full \in {NoDate, 1}}

\* the stores the day and slot pickers are explored on: the empty store, every
\* single booking, every full day, every day with one free slot, and MainStores
PickStores ==
  SeqsUpTo(Bookings, 1)
    \cup {SlotsFilled(d, n) : d \in Days, n \in {NumSlots - 1, NumSlots}}
    \cup MainStores

\* the stores handleFetch is explored on: every short list of bookings, and
\* every full or nearly full day followed by at most one more booking
BuildStores ==
  SeqsUpTo(Bookings, MaxRecords)
    \cup {SlotsFilled(d, n) \o t :
            d \in Days, n \in {NumSlots - 1, NumSlots}, t \in SeqsUpTo(Bookings, 1)}

\* the second session: the same constructor and componentWillMount, in
\* another browser; the fields are the ones of this.state it goes on to use
InitPeer ==
  peer = [ loading |-> TRUE, schedule |-> NoSchedule,
           appointmentDate |-> NoDate, appointmentSlot |-> NoSlot,
           requests |-> <<>>, posts |-> 0 ]

\* the constructor of the appointment manager, with the getObjectType call of
\* its componentWillMount under way
InitAdmin ==
  /\ admin = [ snackbarDisabled |-> FALSE, snackbarMessage |-> "Loading...",
               toolbarDropdownValue |-> 1,
               appointments |-> <<>>, filteredAppointments |-> <<>>,
               datePickerDisabled |-> TRUE,
               selectedRows |-> <<>>, deleteButtonDisabled |-> TRUE,
               selectedRowsPersist |-> <<>>, tableChildren |-> <<>> ]
  /\ timers = <<>>
  /\ deletes = <<>>
  /\ fetches = <<[answered |-> FALSE, err |-> FALSE, objects |-> <<>>]>>
  /\ pressed = 0

Init ==
  /\ InitClient
  /\ InitPeer
  /\ InitAdmin
  /\ now \in 0..MaxStartDay
  /\ store \in {Bucket(list) : list \in MainStores}

InitPick ==
  /\ InitClient
  /\ InitPeer
  /\ InitAdmin
  /\ now \in 0..MaxStartDay
  /\ store \in {Bucket(list) : list \in PickStores}

InitBuild ==
  /\ InitClient
  /\ InitPeer
  /\ InitAdmin
  /\ now \in 0..MaxStartDay
  /\ store \in {Bucket(list) : list \in BuildStores}

\* -------------------------------------------------------------------- clock
\* midnight passes
Tick ==
  /\ now < MaxDay
  /\ now' = now + 1
  /\ UNCHANGED <<adminVars, peerVars, serverVars, netVars, mountVars, pickVars, contactVars, dialogVars>>

\* ------------------------------------------------------- componentWillMount
\* GET /api/config resolves: callback(null, ...) lets async.series go on
ConfigsLoaded ==
  /\ mountStep = "configs"
  /\ mountStep' = "appointments"
  /\ UNCHANGED <<response, loading, schedule>>
  /\ UNCHANGED <<adminVars, peerVars, clockVars, serverVars, netVars, pickVars, contactVars, dialogVars>>

\* a GET is rejected: the promise has no catch, so the series callback never
\* runs and neither handleFetch nor handleFetchError is called
FetchRejected ==
  /\ mountStep \in {"configs", "appointments"}
  /\ mountStep' = "hung"
  /\ UNCHANGED <<response, loading, schedule>>
  /\ UNCHANGED <<adminVars, peerVars, clockVars, serverVars, netVars, pickVars, contactVars, dialogVars>>

\* app.get('/api/appointments'): date and slot of every stored object
ExposeAppointmentsLeakBug(objects) == objects

ExposeAppointments(objects) ==
  [i \in 1..Len(objects) |-> [date |-> objects[i].date, slot |-> objects[i].slot]]

\* GET /api/appointments resolves: the series ends and handleFetch(response) runs
AppointmentsLoadedEarlyBug ==
  /\ mountStep \in {"configs", "appointments"}
  /\ mountStep' = "done"
  /\ response' = ExposeAppointments(store)
  /\ schedule' = SetSchedule(BuildSchedule(response', now))
  /\ loading' = FALSE
  /\ UNCHANGED <<adminVars, peerVars, clockVars, serverVars, netVars, pickVars, contactVars,
                 dialogVars>>

AppointmentsLoaded ==
  /\ mountStep = "appointments"
  /\ mountStep' = "done"
  /\ response' = ExposeAppointments(store)
  /\ schedule' = SetSchedule(BuildSchedule(response', now))
  /\ loading' = FALSE
  /\ UNCHANGED <<adminVars, peerVars, clockVars, serverVars, netVars, pickVars, contactVars, dialogVars>>

\* ------------------------------------------------------------------- wizard
\* the Dialog is modal: nothing behind it can be clicked while it is open
ClickStep0 ==
  /\ ~confirmationModalOpen
  /\ ~loading
  /\ stepIndex' = 0
  /\ UNCHANGED <<appointmentDate, appointmentSlot, appointmentMeridiem,
                 confirmationTextVisible>>
  /\ UNCHANGED <<adminVars, peerVars, clockVars, serverVars, netVars, mountVars, contactVars, dialogVars>>

ClickStep1 ==
  /\ ~confirmationModalOpen
  /\ appointmentDate # NoDate
  /\ stepIndex' = 1
  /\ UNCHANGED <<appointmentDate, appointmentSlot, appointmentMeridiem,
                 confirmationTextVisible>>
  /\ UNCHANGED <<adminVars, peerVars, clockVars, serverVars, netVars, mountVars, contactVars, dialogVars>>

ClickStep2UngatedBug ==
  /\ ~confirmationModalOpen
  /\ stepIndex' = 2
  /\ UNCHANGED <<appointmentDate, appointmentSlot, appointmentMeridiem,
                 confirmationTextVisible>>
  /\ UNCHANGED <<adminVars, peerVars, clockVars, serverVars, netVars, mountVars, contactVars,
                 dialogVars>>

ClickStep2 ==
  /\ ~confirmationModalOpen
  /\ appointmentSlot # NoSlot
  /\ stepIndex' = 2
  /\ UNCHANGED <<appointmentDate, appointmentSlot, appointmentMeridiem,
                 confirmationTextVisible>>
  /\ UNCHANGED <<adminVars, peerVars, clockVars, serverVars, netVars, mountVars, contactVars, dialogVars>>

\* the DatePicker of step 0 offers the days shouldDisableDate lets through
HandleSetAppointmentDate(date) ==
  /\ ~confirmationModalOpen
  /\ stepIndex = 0
  /\ schedule.defined
  /\ ~CheckDisableDate(date)
  /\ stepIndex' = NextStepIndex(stepIndex)
  /\ appointmentDate' = date
  /\ confirmationTextVisible' = TRUE
  /\ UNCHANGED <<appointmentSlot, appointmentMeridiem>>
  /\ UNCHANGED <<adminVars, peerVars, clockVars, serverVars, netVars, mountVars, contactVars, dialogVars>>

\* the AM/PM SelectField of step 1
HandleSetAppointmentMeridiem(meridiem) ==
  /\ ~confirmationModalOpen
  /\ stepIndex = 1
  /\ appointmentMeridiem' = meridiem
  /\ UNCHANGED <<stepIndex, appointmentDate, appointmentSlot, confirmationTextVisible>>
  /\ UNCHANGED <<adminVars, peerVars, clockVars, serverVars, netVars, mountVars, contactVars, dialogVars>>

\* a RadioButton of step 1 that is displayed and enabled
HandleSetAppointmentSlot(slot) ==
  /\ ~confirmationModalOpen
  /\ stepIndex = 1
  /\ ~loading
  /\ ~RadioDisabled(slot)
  /\ stepIndex' = NextStepIndex(stepIndex)
  /\ appointmentSlot' = slot
  /\ UNCHANGED <<appointmentDate, appointmentMeridiem, confirmationTextVisible>>
  /\ UNCHANGED <<adminVars, peerVars, clockVars, serverVars, netVars, mountVars, contactVars, dialogVars>>

\* the TextFields of step 2
TypeFirstName(newValue) ==
  /\ ~confirmationModalOpen
  /\ stepIndex = 2
  /\ firstName' = newValue
  /\ UNCHANGED <<lastName, email, phone, validEmail, validPhone, emailField, phoneField>>
  /\ UNCHANGED <<adminVars, peerVars, clockVars, serverVars, netVars, mountVars, pickVars, dialogVars>>

TypeLastName(newValue) ==
  /\ ~confirmationModalOpen
  /\ stepIndex = 2
  /\ lastName' = newValue
  /\ UNCHANGED <<firstName, email, phone, validEmail, validPhone, emailField, phoneField>>
  /\ UNCHANGED <<adminVars, peerVars, clockVars, serverVars, netVars, mountVars, pickVars, dialogVars>>

ValidateEmail(newValue) ==
  /\ ~confirmationModalOpen
  /\ stepIndex = 2
  /\ emailField' = newValue
  /\ IF EmailRegexTest(newValue)
       THEN email' = newValue /\ validEmail' = TRUE
       ELSE email' = email /\ validEmail' = FALSE
  /\ UNCHANGED <<firstName, lastName, phone, validPhone, phoneField>>
  /\ UNCHANGED <<adminVars, peerVars, clockVars, serverVars, netVars, mountVars, pickVars, dialogVars>>

ValidatePhone(phoneNumber) ==
  /\ ~confirmationModalOpen
  /\ stepIndex = 2
  /\ phoneField' = phoneNumber
  /\ IF PhoneRegexTest(phoneNumber)
       THEN phone' = phoneNumber /\ validPhone' = TRUE
       ELSE phone' = phone /\ validPhone' = FALSE
  /\ UNCHANGED <<firstName, lastName, email, validEmail, emailField>>
  /\ UNCHANGED <<adminVars, peerVars, clockVars, serverVars, netVars, mountVars, pickVars, dialogVars>>

\* the Schedule button of step 2: disabled={!contactFormFilled || data.processed}
ClickSchedule ==
  /\ ~confirmationModalOpen
  /\ stepIndex = 2
  /\ ContactFormFilled /\ ~processed
  /\ confirmationModalOpen' = ~confirmationModalOpen
  /\ UNCHANGED <<confirmationSnackbarOpen, confirmationSnackbarMessage, processed>>
  /\ UNCHANGED <<adminVars, peerVars, clockVars, serverVars, netVars, mountVars, pickVars, contactVars>>

\* the Cancel button of the confirmation dialog
ModalCancel ==
  /\ confirmationModalOpen
  /\ confirmationModalOpen' = FALSE
  /\ UNCHANGED <<confirmationSnackbarOpen, confirmationSnackbarMessage, processed>>
  /\ UNCHANGED <<adminVars, peerVars, clockVars, serverVars, netVars, mountVars, pickVars, contactVars>>

\* the appointment object handleSubmit posts
SubmittedAppointment ==
  [ date |-> FormatYDM(MomentOf(appointmentDate)),
    slot |-> appointmentSlot,
    name |-> firstName \o <<" ">> \o lastName,
    email |-> email,
    phone |-> phone ]

\* the Confirm button of the confirmation dialog: handleSubmit(). The dialog
\* stays open, so Confirm can be pressed again; `limit` caps the POSTs of a run.
HandleSubmitWithin(limit) ==
  /\ confirmationModalOpen
  /\ posts < limit
  /\ posts' = posts + 1
  /\ requests' = Append(requests, SubmittedAppointment)
  /\ UNCHANGED responses
  /\ UNCHANGED <<adminVars, peerVars, clockVars, serverVars, mountVars, pickVars, contactVars, dialogVars>>

HandleSubmitChecksStoreBug ==
  /\ ~\E k \in 1..Len(store) :
        store[k].date = SubmittedAppointment.date /\ store[k].slot = appointmentSlot
  /\ HandleSubmitWithin(MaxPosts)

HandleSubmit == HandleSubmitWithin(MaxPosts)

\* onRequestClose of the SnackBar (autoHideDuration, or a click away)
CloseSnackbar ==
  /\ confirmationSnackbarOpen
  /\ confirmationSnackbarOpen' = FALSE
  /\ UNCHANGED <<confirmationModalOpen, confirmationSnackbarMessage, processed>>
  /\ UNCHANGED <<adminVars, peerVars, clockVars, serverVars, netVars, mountVars, pickVars, contactVars>>

\* ------------------------------------------------------------------- server
RemoveAt(seq, i) == [j \in 1..(Len(seq) - 1) |-> IF j < i THEN seq[j] ELSE seq[j + 1]]

\* date.hour(9).add(appointment.slot, 'hours') changes `date` itself: the day
\* and the hour `date` (and `time`, the same object) holds afterwards
SlotMomentNextDayBug(day, slot) ==
  [day |-> day + 1, hour |-> (DayStartHour + slot) % 24]

SlotMoment(day, slot) ==
  [day |-> day + ((DayStartHour + slot) \div 24), hour |-> (DayStartHour + slot) % 24]

\* the arguments of twilioClient.messages.create, with the error its callback
\* gets: the callback logs both and does nothing else
SmsMessage(appointment, smsOk) ==
  LET time == SlotMoment(ParseYDM(appointment.date), appointment.slot)
  IN [ to |-> <<"+", "1">> \o StripNonDigits(appointment.phone),
       name |-> appointment.name,
       time |-> FormatHMMA(time.hour),
       day |-> time.day,
       err |-> ~smsOk ]

\* cosmicObject: title and the metafields date, slot, email, phone
CosmicObject(appointment) ==
  LET date == SlotMoment(ParseYDM(appointment.date), appointment.slot)
  IN StoreRecord(FormatYDM(date.day), appointment.slot, appointment.name,
                 appointment.email, StripNonDigits(appointment.phone))

\* the JSON body of the answer; both go out with res.json, that is with status 200
PostAnswer(writeOk) == [resolved |-> TRUE, data |-> IF writeOk THEN "succes" ELSE "error "]

\* app.post('/api/appointments'): the SMS is handed to Twilio, the object is
\* posted to Cosmic, and the outcome of that write picks the JSON body
ServerPostSmsBlocksBug(i, smsOk, writeOk) ==
  /\ requests' = RemoveAt(requests, i)
  /\ sms' = Append(sms, SmsMessage(requests[i], smsOk))
  /\ store' = IF smsOk /\ writeOk THEN AddObject(store, CosmicObject(requests[i])) ELSE store
  /\ responses' = Append(responses, PostAnswer(smsOk /\ writeOk))
  /\ UNCHANGED posts
  /\ UNCHANGED <<adminVars, peerVars, clockVars, mountVars, pickVars, contactVars, dialogVars>>

ServerPost(i, smsOk, writeOk) ==
  /\ requests' = RemoveAt(requests, i)
  /\ sms' = Append(sms, SmsMessage(requests[i], smsOk))
  /\ store' = IF writeOk THEN AddObject(store, CosmicObject(requests[i])) ELSE store
  /\ responses' = Append(responses, PostAnswer(writeOk))
  /\ UNCHANGED posts
  /\ UNCHANGED <<adminVars, peerVars, clockVars, mountVars, pickVars, contactVars, dialogVars>>

\* the POST never gets an answer (the server is down, the connection drops)
PostFails(i) ==
  /\ requests' = RemoveAt(requests, i)
  /\ responses' = Append(responses, [resolved |-> FALSE, data |-> "Network Error"])
  /\ UNCHANGED posts
  /\ UNCHANGED <<adminVars, peerVars, clockVars, serverVars, mountVars, pickVars, contactVars, dialogVars>>

\* the then / catch callbacks of handleSubmit
PostSettled(j) ==
  /\ responses' = RemoveAt(responses, j)
  /\ IF responses[j].resolved
       THEN /\ confirmationSnackbarMessage' = "Appointment succesfully added!"
            /\ confirmationSnackbarOpen' = TRUE
            /\ processed' = TRUE
       ELSE /\ confirmationSnackbarMessage' = "Appointment failed to save."
            /\ confirmationSnackbarOpen' = TRUE
            /\ processed' = processed
  /\ UNCHANGED <<requests, posts, confirmationModalOpen>>
  /\ UNCHANGED <<adminVars, peerVars, clockVars, serverVars, mountVars, pickVars, contactVars>>

\* ----------------------------------------------------------- second session
\* What the visitor of the second session types into the contact fields
PeerContact ==
  [ firstName |-> <<"P">>, lastName |-> <<"Q">>,
    email |-> <<"p", "@", "q", ".", "r", "s">>,
    phone |-> <<"7", "7", "7", "-", "7", "7", "7", "-", "7", "7", "7", "7">> ]

\* componentWillMount and handleFetch of the second session
PeerLoaded ==
  /\ peer.loading
  /\ peer' = [peer EXCEPT
                !.loading = FALSE,
                !.schedule = SetSchedule(BuildSchedule(ExposeAppointments(store), now))]
  /\ UNCHANGED <<adminVars, clockVars, serverVars, netVars, mountVars, pickVars, contactVars,
                 dialogVars>>

\* checkDisableDate(day) in the second session
PeerCheckDisableDate(day) ==
  LET dateString == FormatYDM(day)
  IN \/ /\ dateString \in DOMAIN peer.schedule.days
        /\ peer.schedule.days[dateString] = FullyBooked
     \/ day - now < 0

\* scheduleDisabled of renderAppointmentTimes in the second session
PeerScheduleDisabled(slot) ==
  LET appointmentDateString == FormatYDM(peer.appointmentDate)
  IN IF appointmentDateString \in DOMAIN peer.schedule.days
       THEN LET entry == peer.schedule.days[appointmentDateString]
            IN IF IsArray(entry) THEN entry.slots[slot + 1] ELSE FALSE
       ELSE FALSE

\* handleSetAppointmentDate in the second session; its visitor picks once
PeerSetAppointmentDate(date) ==
  /\ ~peer.loading
  /\ peer.appointmentDate = NoDate
  /\ ~PeerCheckDisableDate(date)
  /\ peer' = [peer EXCEPT !.appointmentDate = date]
  /\ UNCHANGED <<adminVars, clockVars, serverVars, netVars, mountVars, pickVars, contactVars,
                 dialogVars>>

\* handleSetAppointmentSlot in the second session, with the AM/PM filter set
\* to the meridiem of the slot
PeerSetAppointmentSlot(slot) ==
  /\ peer.appointmentDate # NoDate
  /\ peer.appointmentSlot = NoSlot
  /\ ~PeerScheduleDisabled(slot)
  /\ peer' = [peer EXCEPT !.appointmentSlot = slot]
  /\ UNCHANGED <<adminVars, clockVars, serverVars, netVars, mountVars, pickVars, contactVars,
                 dialogVars>>

\* the appointment object handleSubmit posts in the second session
PeerSubmittedAppointment ==
  [ date |-> FormatYDM(peer.appointmentDate),
    slot |-> peer.appointmentSlot,
    name |-> PeerContact.firstName \o <<" ">> \o PeerContact.lastName,
    email |-> PeerContact.email,
    phone |-> PeerContact.phone ]

\* handleSubmit in the second session, once its contact form is filled
PeerSubmit ==
  /\ peer.appointmentSlot # NoSlot
  /\ peer.posts < MaxPosts
  /\ peer' = [peer EXCEPT !.requests = Append(@, PeerSubmittedAppointment),
                          !.posts = @ + 1]
  /\ UNCHANGED <<adminVars, clockVars, serverVars, netVars, mountVars, pickVars, contactVars,
                 dialogVars>>

\* app.post('/api/appointments') serves a request of the second session; the
\* answer goes to that session's then-branch, which sets only its own notice
PeerServerPost(smsOk, writeOk) ==
  /\ peer.requests # <<>>
  /\ peer' = [peer EXCEPT !.requests = Tail(@)]
  /\ sms' = Append(sms, SmsMessage(Head(peer.requests), smsOk))
  /\ store' = IF writeOk THEN AddObject(store, CosmicObject(Head(peer.requests))) ELSE store
  /\ UNCHANGED <<adminVars, clockVars, netVars, mountVars, pickVars, contactVars,
                 dialogVars>>

\* ---------------------------------------------------------------- admin view
\* The appointment manager (the Cosmic extension). A JavaScript object keyed by
\* date string is the sequence of its [date, items] entries in key order
\* (Object.keys gives string keys in insertion order); a row index is 0-based.

\* moment(date, 'YYYY-DD-MM').format('M[/]D[/]YYYY'): month, day, year
FormatMDY(n) == IF n \in Days THEN <<MonthOf(n), DayOfMonth(n), 2024>> ELSE InvalidDate

\* moment(text, 'M-D-YYYY'): the fields are read in the same order
ParseMDY(s) ==
  IF \E n \in Days : s = <<MonthOf(n), DayOfMonth(n), 2024>>
    THEN CHOOSE n \in Days : s = <<MonthOf(n), DayOfMonth(n), 2024>>
    ELSE InvalidDay

\* moment(text, 'h:mm a'): the hour of the day of a whole-hour text
ParseHMMA(text) == (text[1] % 12) + (IF text[3] = "pm" THEN 12 ELSE 0)

\* a.diff(b, 'hours') for a at `hour`:00:00.000 and b = moment().hours(9)
\* .minutes(0).seconds(0), which keeps the milliseconds of the clock: the
\* difference is truncated towards zero
HoursDiff(hour, msZero) ==
  LET whole == hour - DayStartHour
  IN IF msZero \/ whole <= 0 THEN whole ELSE whole - 1

\* the slot handleDelete reads back from the time text of a row
RecoverSlot(timeText, msZero) == HoursDiff(ParseHMMA(timeText), msZero) + 1

\* the date key handleDelete reads back from the date text of a row
RecoverDate(dateText) == FormatYDM(ParseMDY(dateText))

\* object[date], with <<>> for undefined (no entry holds an empty array)
ItemsAt(object, date) ==
  IF \E i \in 1..Len(object) : object[i].date = date
    THEN object[CHOOSE i \in 1..Len(object) : object[i].date = date].items
    ELSE <<>>

HasKey(object, date) == \E i \in 1..Len(object) : object[i].date = date

\* currentAppointments[date].push(appointmentData) followed by the sort on
\* slot: the array was sorted, the new element goes behind those it does not
\* precede
PushSorted(items, appointmentData) ==
  LET n == Cardinality({i \in 1..Len(items) : items[i].slot <= appointmentData.slot})
  IN SubSeq(items, 1, n) \o <<appointmentData>> \o SubSeq(items, n + 1, Len(items))

\* the body of the reduce callback of the admin handleFetch
GroupStep(currentAppointments, appointment) ==
  LET date == appointment.date
      appointmentData == [ slot |-> appointment.slot, name |-> appointment.name,
                           email |-> appointment.email, phone |-> appointment.phone,
                           slug |-> appointment.slug ]
      c1 == IF HasKey(currentAppointments, date) THEN currentAppointments
            ELSE Append(currentAppointments, [date |-> date, items |-> <<>>])
  IN [i \in 1..Len(c1) |->
        IF c1[i].date = date
          THEN [c1[i] EXCEPT !.items = PushSorted(@, appointmentData)]
          ELSE c1[i]]

RECURSIVE GroupByDate(_, _)
GroupByDate(objects, acc) ==
  IF objects = <<>> THEN acc
  ELSE GroupByDate(Tail(objects), GroupStep(acc, Head(objects)))

\* moment(a, 'YYYY-DD-MM').isBefore(moment(b, 'YYYY-MM-DD')): b is read with
\* month and day swapped, and an invalid moment is before nothing
IsBeforeMixed(a, b) ==
  LET bValid == b[2] \in 1..12 /\ b[3] \in 1..31
  IN bValid /\ (a[3] * 32 + a[2]) < (b[2] * 32 + b[3])

\* Object.keys(schedule).sort(comparator) with a comparator that answers true
\* or false: an insertion from the right that passes the elements the
\* comparator puts after the new one
InsertEntry(sorted, entry) ==
  LET stay == {i \in 1..Len(sorted) : ~IsBeforeMixed(sorted[i].date, entry.date)}
      n == IF stay = {} THEN 0 ELSE CHOOSE m \in stay : \A k \in stay : k <= m
  IN SubSeq(sorted, 1, n) \o <<entry>> \o SubSeq(sorted, n + 1, Len(sorted))

RECURSIVE SortEntries(_, _)
SortEntries(entries, acc) ==
  IF entries = <<>> THEN acc
  ELSE SortEntries(Tail(entries), InsertEntry(acc, Head(entries)))

\* renderAppointment: the TableRow of an appointment
RenderAppointment(date, appointment, index, selectedRows) ==
  [ index |-> index, name |-> appointment.name, email |-> appointment.email,
    phone |-> appointment.phone,
    date |-> FormatMDY(ParseYDM(date)),
    time |-> FormatHMMA(DayStartHour + appointment.slot),
    selected |-> \E k \in 1..Len(selectedRows) : selectedRows[k] = index ]

\* the rows of the entries; `counter` runs on over the dates when `running`,
\* and restarts with every date otherwise
RECURSIVE RowsOf(_, _, _, _)
RowsOf(entries, selectedRows, counter, running) ==
  IF entries = <<>> THEN <<>>
  ELSE LET entry == Head(entries)
           first == IF running THEN counter ELSE 0
           rows == [i \in 1..Len(entry.items) |->
                      RenderAppointment(entry.date, entry.items[i], first + i - 1,
                                        selectedRows)]
       IN rows \o RowsOf(Tail(entries), selectedRows, counter + Len(entry.items), running)

\* what the admin view leaves alone: the booking site and its sessions
siteVars == <<clockVars, sms, netVars, mountVars, pickVars, contactVars, dialogVars,
              peerVars>>

\* setTableChildren(selectedRows, appointments): whether the rows are those of
\* the filter is read from this.state.filteredAppointments, not from the argument
SetTableChildren(selectedRows, appointments) ==
  IF admin.filteredAppointments # <<>>
    THEN RowsOf(admin.filteredAppointments, selectedRows, 0, FALSE)
    ELSE RowsOf(SortEntries(appointments, <<>>), selectedRows, 0, TRUE)

\* Cosmic answers a getObjectType call with the objects the bucket holds then,
\* or with an error
CosmicGetObjectType(k, ok) ==
  /\ ~fetches[k].answered
  /\ fetches' = [fetches EXCEPT ![k] =
                   [answered |-> TRUE, err |-> ~ok, objects |-> IF ok THEN store ELSE <<>>]]
  /\ UNCHANGED <<admin, timers, deletes, pressed, store, siteVars>>

\* the callback of a getObjectType call: handleFetch(response) or handleFetchError(err)
AdminHandleFetch(k) ==
  /\ fetches[k].answered
  /\ fetches' = RemoveAt(fetches, k)
  /\ IF fetches[k].err
       THEN admin' = [admin EXCEPT !.snackbarMessage = "Error loading data"]
       ELSE LET appointments == GroupByDate(fetches[k].objects, <<>>)
            IN admin' = [admin EXCEPT
                           !.appointments = appointments,
                           !.snackbarDisabled = TRUE,
                           !.tableChildren = SetTableChildren(<<>>, appointments)]
  /\ UNCHANGED <<timers, deletes, pressed, store, siteVars>>

\* a click is handled once the setTimeout callbacks of delay 0 have run: they
\* are due before the admin can click again
ClickHandled == \A k \in 1..Len(timers) : timers[k].delay # 0

\* handleToolbarDropdownChange(val): 0 filters by date, 1 lists all
HandleToolbarDropdownChange(val) ==
  /\ ClickHandled
  /\ admin' = IF val # 0
                THEN [admin EXCEPT !.filteredAppointments = <<>>,
                                   !.datePickerDisabled = TRUE,
                                   !.toolbarDropdownValue = 1]
                ELSE [admin EXCEPT !.toolbarDropdownValue = 0,
                                   !.datePickerDisabled = FALSE]
  /\ UNCHANGED <<timers, deletes, fetches, pressed, store, siteVars>>

\* checkDisableDate(day) of the admin DatePicker
AdminCheckDisableDate(day) == ~HasKey(admin.appointments, FormatYDM(day))

\* filterAppointments(date), for a date the DatePicker offers
FilterAppointments(date) ==
  /\ ClickHandled
  /\ ~admin.datePickerDisabled
  /\ ~AdminCheckDisableDate(date)
  /\ LET dateString == FormatYDM(date)
         filteredAppointments ==
           <<[date |-> dateString, items |-> ItemsAt(admin.appointments, dateString)]>>
     IN admin' = [admin EXCEPT
                    !.filteredAppointments = filteredAppointments,
                    !.tableChildren = SetTableChildren(<<>>, filteredAppointments)]
  /\ UNCHANGED <<timers, deletes, fetches, pressed, store, siteVars>>

\* the ascending arrays of row indices below n
RECURSIVE RowArrays(_)
RowArrays(n) ==
  IF n = 0 THEN {<<>>}
  ELSE RowArrays(n - 1) \cup {Append(rows, n - 1) : rows \in RowArrays(n - 1)}

\* what the Table hands to onRowSelection: 'all', or an array of row indices
\* ('none' has the effect of the empty array)
RowSelections ==
  {[all |-> TRUE, rows |-> <<>>]}
    \cup {[all |-> FALSE, rows |-> rows] : rows \in RowArrays(Len(admin.tableChildren))}

\* handleRowSelection(rowsToSelect); the setTimeout is left pending
HandleRowSelection(rowsToSelect) ==
  /\ ClickHandled
  /\ admin.tableChildren # <<>>
  /\ Len(timers) < MaxTimers
  /\ LET allRows == [i \in 1..Len(admin.tableChildren) |-> i - 1]
         allRowsSelected == rowsToSelect.all
         selectedRows == IF allRowsSelected THEN allRows ELSE rowsToSelect.rows
         appointments == IF admin.filteredAppointments = <<>>
                           THEN admin.appointments ELSE admin.filteredAppointments
         deleteButtonDisabled == Len(selectedRows) = 0
         tableChildren == IF allRowsSelected
                            THEN SetTableChildren(<<>>, appointments)
                            ELSE SetTableChildren(selectedRows, appointments)
         delay == IF admin.deleteButtonDisabled THEN 0 ELSE 1000
     IN /\ admin' = [admin EXCEPT
                       !.selectedRows = selectedRows,
                       !.tableChildren = tableChildren,
                       !.selectedRowsPersist =
                          IF Len(selectedRows) # 0 THEN selectedRows ELSE @]
        /\ timers' = Append(timers, [value |-> deleteButtonDisabled, delay |-> delay])
  /\ UNCHANGED <<deletes, fetches, pressed, store, siteVars>>

\* a setTimeout callback runs: a timer set earlier with a delay that is not
\* longer runs first
TimerFires(k) ==
  /\ \A j \in 1..(k - 1) : timers[j].delay > timers[k].delay
  /\ admin' = [admin EXCEPT !.deleteButtonDisabled = timers[k].value]
  /\ timers' = RemoveAt(timers, k)
  /\ UNCHANGED <<deletes, fetches, pressed, store, siteVars>>

\* the appointment handleDelete looks up for row `row`; NoSlug when the row or
\* the appointment is undefined
NoSlug == 0
LookedUp(row, msZero) ==
  IF row + 1 > Len(admin.tableChildren) THEN NoSlug
  ELSE LET date == RecoverDate(admin.tableChildren[row + 1].date)
           slot == RecoverSlot(admin.tableChildren[row + 1].time, msZero)
           items == ItemsAt(admin.appointments, date)
           found == {i \in 1..Len(items) : items[i].slot = slot}
       IN IF found = {} THEN NoSlug
          ELSE items[CHOOSE i \in found : \A j \in found : i <= j].slug

\* the Delete button: handleDelete(selectedRowsPersist). msZero tells whether
\* the clock is on a whole second when the rows are read. A row or appointment
\* that is undefined throws before any delete is sent and before the setState.
HandleDelete(msZero) ==
  /\ ClickHandled
  /\ ~admin.deleteButtonDisabled
  /\ pressed < MaxDeletes
  /\ pressed' = pressed + 1
  /\ LET rows == admin.selectedRowsPersist
         slugs == [i \in 1..Len(rows) |-> LookedUp(rows[i], msZero)]
     IN IF \E i \in 1..Len(slugs) : slugs[i] = NoSlug
          THEN UNCHANGED <<admin, deletes>>
          ELSE /\ deletes' = deletes \o [i \in 1..Len(slugs) |->
                                          [slug |-> slugs[i], answered |-> FALSE,
                                           err |-> FALSE]]
               /\ admin' = [admin EXCEPT !.selectedRows = <<>>,
                                         !.deleteButtonDisabled = TRUE]
  /\ UNCHANGED <<timers, fetches, store, siteVars>>

\* the bucket without the object of slug `slug`
Without(objects, slug) ==
  LET Other(object) == object.slug # slug
  IN SelectSeq(objects, Other)

\* Cosmic serves a deleteObject call: the object is removed, or the call fails
CosmicDeleteObject(k, ok) ==
  /\ ~deletes[k].answered
  /\ LET there == \E i \in 1..Len(store) : store[i].slug = deletes[k].slug
     IN /\ store' = IF ok /\ there THEN Without(store, deletes[k].slug) ELSE store
        /\ deletes' = [deletes EXCEPT ![k].answered = TRUE, ![k].err = ~(ok /\ there)]
  /\ UNCHANGED <<admin, timers, fetches, pressed, siteVars>>

\* the callback of a deleteObject call: the failure notice, or 'Loading...' and
\* a new getObjectType call
DeleteCallback(k) ==
  /\ deletes[k].answered
  /\ deletes' = RemoveAt(deletes, k)
  /\ IF deletes[k].err
       THEN /\ admin' = [admin EXCEPT !.snackbarDisabled = FALSE,
                                      !.snackbarMessage = "Failed to delete appointments"]
            /\ UNCHANGED fetches
       ELSE /\ admin' = [admin EXCEPT !.snackbarMessage = "Loading...",
                                      !.snackbarDisabled = FALSE]
            /\ fetches' = Append(fetches, [answered |-> FALSE, err |-> FALSE,
                                           objects |-> <<>>])
  /\ UNCHANGED <<timers, pressed, store, siteVars>>

\* ------------------------------------------------------------ specifications
Mount ==
  \/ ConfigsLoaded
  \/ FetchRejected
  \/ AppointmentsLoaded

\* steps 0 and 1 of the wizard: the day and the slot
Pick ==
  \/ ClickStep0
  \/ ClickStep1
  \/ ClickStep2
  \/ \E date \in Days : HandleSetAppointmentDate(date)
  \/ \E meridiem \in {0, 1} : HandleSetAppointmentMeridiem(meridiem)
  \/ \E slot \in Slots : HandleSetAppointmentSlot(slot)

\* step 2 of the wizard, the confirmation dialog and the snackbar
ContactForm ==
  \/ \E newValue \in NameInputs : TypeFirstName(newValue)
  \/ \E newValue \in NameInputs : TypeLastName(newValue)
  \/ \E newValue \in EmailInputs : ValidateEmail(newValue)
  \/ \E phoneNumber \in PhoneInputs : ValidatePhone(phoneNumber)
  \/ ClickSchedule
  \/ ModalCancel
  \/ CloseSnackbar

Contact == ContactForm \/ HandleSubmit

Server ==
  \/ \E i \in 1..Len(requests) : \E smsOk, writeOk \in BOOLEAN : ServerPost(i, smsOk, writeOk)
  \/ \E i \in 1..Len(requests) : PostFails(i)
  \/ \E j \in 1..Len(responses) : PostSettled(j)

\* the whole program: clock, page load, wizard, server
Next == Tick \/ Mount \/ Pick \/ Contact \/ Server

Spec == Init /\ [][Next]_vars

\* the day and slot pickers while the clock runs, over PickStores. The actions
\* left out (contact fields, dialog, server) change none of the variables the
\* pickers read or write
NextPick == Tick \/ Mount \/ Pick

SpecPick == InitPick /\ [][NextPick]_vars

\* the page load alone while the clock runs, over BuildStores
NextBuild == Tick \/ Mount

SpecBuild == InitBuild /\ [][NextBuild]_vars

\* the whole wizard of one session with a Confirm button that can be pressed
\* MaxReposts times, without the clock, on the store in which day 1 is booked
\* out and day 2 has two free slots
InitResubmit ==
  /\ InitClient
  /\ InitPeer
  /\ InitAdmin
  /\ now = 0
  /\ store = Bucket(BusyFrom(0, 1))

NextResubmit == Mount \/ Pick \/ ContactForm \/ HandleSubmitWithin(MaxReposts) \/ Server

SpecResubmit == InitResubmit /\ [][NextResubmit]_vars

\* two sessions on the same server, each sending at most MaxPosts POSTs,
\* without the clock, on the store in which day 1 is booked out and day 2 has
\* two free slots
Peer ==
  \/ PeerLoaded
  \/ \E date \in Days : PeerSetAppointmentDate(date)
  \/ \E slot \in Slots : PeerSetAppointmentSlot(slot)
  \/ PeerSubmit
  \/ \E smsOk, writeOk \in BOOLEAN : PeerServerPost(smsOk, writeOk)

InitTwo ==
  /\ InitClient
  /\ InitPeer
  /\ InitAdmin
  /\ now = 0
  /\ store = Bucket(BusyFrom(0, 1))

NextTwo == Mount \/ Pick \/ Contact \/ Server \/ Peer

SpecTwo == InitTwo /\ [][NextTwo]_vars

\* the appointment manager on its own, on small buckets
AdminStores ==
  { Bucket(<<Earlier(1, 0), Earlier(1, 1)>>),
    Bucket(<<Earlier(2, 3), Earlier(1, 1)>>) }

InitManager ==
  /\ InitClient
  /\ InitPeer
  /\ InitAdmin
  /\ now = 0
  /\ store \in AdminStores

NextManager ==
  \/ \E k \in 1..Len(fetches) : \E ok \in BOOLEAN : CosmicGetObjectType(k, ok)
  \/ \E k \in 1..Len(fetches) : AdminHandleFetch(k)
  \/ \E val \in {0, 1} : HandleToolbarDropdownChange(val)
  \/ \E date \in Days : FilterAppointments(date)
  \/ \E rowsToSelect \in RowSelections : HandleRowSelection(rowsToSelect)
  \/ \E k \in 1..Len(timers) : TimerFires(k)
  \/ \E msZero \in BOOLEAN : HandleDelete(msZero)
  \/ \E k \in 1..Len(deletes) : \E ok \in BOOLEAN : CosmicDeleteObject(k, ok)
  \/ \E k \in 1..Len(deletes) : DeleteCallback(k)

SpecManager == InitManager /\ [][NextManager]_vars

\* the appointment manager with a Cosmic whose calls succeed (a deleteObject
\* call for an object that is gone still fails)
NextReliable ==
  \/ \E k \in 1..Len(fetches) : CosmicGetObjectType(k, TRUE)
  \/ \E k \in 1..Len(fetches) : AdminHandleFetch(k)
  \/ \E val \in {0, 1} : HandleToolbarDropdownChange(val)
  \/ \E date \in Days : FilterAppointments(date)
  \/ \E rowsToSelect \in RowSelections : HandleRowSelection(rowsToSelect)
  \/ \E k \in 1..Len(timers) : TimerFires(k)
  \/ \E msZero \in BOOLEAN : HandleDelete(msZero)
  \/ \E k \in 1..Len(deletes) : CosmicDeleteObject(k, TRUE)
  \/ \E k \in 1..Len(deletes) : DeleteCallback(k)

SpecReliable == InitManager /\ [][NextReliable]_vars

\* ------------------------------------------------------------------ claims
\* the step in which handleFetch runs
FetchStep == loading /\ ~loading'

\* slot `slot` of day `day` is taken in `days`: the day is fully booked or the
\* bit of the slot is set; a day without an entry has no taken slot
SlotTaken(days, day, slot) ==
  /\ FormatYDM(day) \in DOMAIN days
  /\ \/ days[FormatYDM(day)] = FullyBooked
     \/ IsArray(days[FormatYDM(day)]) /\ days[FormatYDM(day)].slots[slot + 1]

\* `list` holds a record for (day, slot)
Booked(list, day, slot) ==
  \E i \in 1..Len(list) : list[i].date = FormatYDM(day) /\ list[i].slot = slot

\* C1: the schedule handleFetch builds marks slot s of a day d other than
\* today as taken if and only if the fetched list holds a record for (d, s).
C1_TakenIffBooked ==
  [][FetchStep =>
       \A d \in Days \ {now'} : \A s \in Slots :
         SlotTaken(schedule'.days, d, s) <=> Booked(response', d, s)]_vars

\* C1 witness: a schedule built from a list with a booking on another day than
\* today, whose slot is taken while another slot of that day is free.
C1_Witness ==
  /\ ~loading
  /\ \E d \in Days \ {now} : \E s, t \in Slots :
       /\ Booked(response, d, s) /\ SlotTaken(schedule.days, d, s)
       /\ ~Booked(response, d, t) /\ ~SlotTaken(schedule.days, d, t)

\* the booking state of a day in the stored schedule
DayState(day) ==
  IF FormatYDM(day) \notin DOMAIN schedule.days THEN "Open"
  ELSE IF schedule.days[FormatYDM(day)] = FullyBooked THEN "FullyBooked"
  ELSE "PartiallyBooked"

\* C3: once the schedule is set, checkDisableDate disables a day exactly when
\* the day is before today or its entry is FullyBooked; open and partially
\* booked days from today on are selectable.
C3_DisabledIffPastOrFull ==
  schedule.defined =>
    \A day \in Days :
      /\ CheckDisableDate(day) <=> (day < now \/ DayState(day) = "FullyBooked")
      /\ (day >= now /\ DayState(day) \in {"Open", "PartiallyBooked"})
           => ENABLED HandleSetAppointmentDate(day)
              \/ stepIndex # 0 \/ confirmationModalOpen

\* C3 witness: a day before today that is not fully booked is disabled, today
\* (FullyBooked) is disabled, and a later day that is open or partially booked
\* is selectable.
C3_Witness ==
  /\ schedule.defined
  /\ DayState(now) = "FullyBooked" /\ CheckDisableDate(now)
  /\ \E past, later \in Days :
       /\ past < now /\ DayState(past) # "FullyBooked" /\ CheckDisableDate(past)
       /\ later > now /\ DayState(later) = "PartiallyBooked" /\ ~CheckDisableDate(later)

\* C4: after handleFetch, whatever the fetched list, the schedule has an entry
\* for today, the entry is FullyBooked, and checkDisableDate(today) is true.
C4_TodayFullyBooked ==
  [][FetchStep =>
       /\ FormatYDM(now') \in DOMAIN schedule'.days
       /\ schedule'.days[FormatYDM(now')] = FullyBooked
       /\ CheckDisableDate(now)']_vars

\* C4 witness: a schedule built from a list that holds fewer than a day's worth
\* of records, one of them dated today, with today's entry FullyBooked.
C4_Witness ==
  /\ ~loading
  /\ Len(response) > 0 /\ Len(response) < NumSlots
  /\ \E s \in Slots : Booked(response, now, s)
  /\ schedule.days[FormatYDM(now)] = FullyBooked

\* C5 as stated: with an empty list, today is not selectable and every other
\* day is selectable.
C5_Original ==
  [][(FetchStep /\ response' = <<>>) =>
       /\ CheckDisableDate(now)'
       /\ \A day \in Days \ {now'} : ~CheckDisableDate(day)']_vars

\* C5 amended: with an empty list, today is not selectable, every day after
\* today is selectable, and every day before today is not selectable.
C5_EmptyListDays ==
  [][(FetchStep /\ response' = <<>>) =>
       /\ CheckDisableDate(now)'
       /\ \A day \in Days : day > now' => ~CheckDisableDate(day)'
       /\ \A day \in Days : day < now' => CheckDisableDate(day)']_vars

\* C5 witness: a schedule built from the empty list, with a day before today
\* and a day after today.
C5_Witness ==
  /\ ~loading /\ response = <<>>
  /\ DOMAIN schedule.days = {FormatYDM(now)}
  /\ \E before, after \in Days : before < now /\ now < after

\* C6: the schedule built from a list equals the schedule built from the list
\* concatenated with itself.
C6_DuplicationIdempotent ==
  [][FetchStep => schedule'.days = BuildSchedule(response' \o response', now')]_vars

\* C6 witness: a schedule built from a list that holds the same (date, slot)
\* twice, on another day than today; the slot is taken and the day is not full.
C6_Witness ==
  /\ ~loading
  /\ \E i, j \in 1..Len(response) :
       /\ i # j /\ response[i] = response[j]
       /\ response[i].date # FormatYDM(now)
       /\ response[i].date \in DOMAIN schedule.days
       /\ IsArray(schedule.days[response[i].date])
       /\ schedule.days[response[i].date].slots[response[i].slot + 1]

\* the records of `list` cover every slot of `day`
Covered(list, day) == \A s \in Slots : Booked(list, day, s)

\* C7: whenever the fetched records cover all 8 slots of a day, the day's entry
\* is FullyBooked and checkDisableDate is true for it; the stored schedule never
\* holds a bitmap whose positions are all true.
C7_Collapse ==
  /\ ~loading =>
       \A day \in Days :
         Covered(response, day) =>
           /\ FormatYDM(day) \in DOMAIN schedule.days
           /\ schedule.days[FormatYDM(day)] = FullyBooked
           /\ CheckDisableDate(day)
  /\ \A key \in DOMAIN schedule.days :
       IsArray(schedule.days[key]) =>
         \E i \in 1..Len(schedule.days[key].slots) : ~schedule.days[key].slots[i]

\* C7 witness: the records cover a day after today, which is FullyBooked, while
\* another day holds a bitmap.
C7_Witness ==
  /\ ~loading
  /\ \E day, other \in Days :
       /\ day > now /\ Covered(response, day)
       /\ schedule.days[FormatYDM(day)] = FullyBooked
       /\ DayState(other) = "PartiallyBooked"

\* the slot's meridiem matches the AM/PM filter: slots 0-2 are AM, 3-7 are PM,
\* and appointmentMeridiem is 0 for AM and 1 for PM
MeridiemMatches(slot) ==
  \/ appointmentMeridiem = 0 /\ slot \in 0..2
  \/ appointmentMeridiem = 1 /\ slot \in 3..(NumSlots - 1)

\* C2 as stated: a slot of the rendered day is selectable (its radio button is
\* displayed and enabled) if and only if its meridiem matches the filter and it
\* is not taken, where taken means that the day's entry is FullyBooked or that
\* the day's bitmap has the slot set.
C2_SelectableIffMatchingAndFree ==
  ~loading =>
    \A slot \in Slots :
      ~RadioDisabled(slot)
        <=> (MeridiemMatches(slot)
             /\ ~SlotTaken(schedule.days, MomentOf(appointmentDate), slot))

\* C8: a slot whose meridiem does not match the AM/PM filter is disabled (and
\* cannot be picked), whatever the booking state of the day.
C8_MismatchNeverSelectable ==
  ~loading =>
    \A slot \in Slots :
      ~MeridiemMatches(slot) =>
        RadioDisabled(slot) /\ ~ENABLED HandleSetAppointmentSlot(slot)

\* C8 witness: on the slot step of a picked day without an entry, with the PM
\* filter, a free morning slot is disabled while a free afternoon slot is not.
C8_Witness ==
  /\ ~loading /\ stepIndex = 1 /\ appointmentDate # NoDate
  /\ DayState(appointmentDate) = "Open"
  /\ appointmentMeridiem = 1
  /\ RadioDisabled(0) /\ ~ScheduleDisabled(0)
  /\ ~RadioDisabled(NumSlots - 1)

\* the step in which handleSubmit posts a booking
SubmitStep == Len(requests') = Len(requests) + 1

\* C9: whenever handleSubmit sends the POST, the day, the slot, both names, the
\* email and the phone are set, the email and the phone sent pass validateEmail
\* and validatePhone, and they are what the user last typed.
C9_SubmitOnlyWhenComplete ==
  [][SubmitStep =>
       LET sent == requests'[Len(requests')]
       IN /\ appointmentDate # NoDate /\ appointmentSlot # NoSlot
          /\ Truthy(firstName) /\ Truthy(lastName)
          /\ Truthy(sent.email) /\ Truthy(sent.phone)
          /\ EmailRegexTest(sent.email) /\ PhoneRegexTest(sent.phone)
          /\ sent.email = emailField /\ sent.phone = phoneField]_vars

\* C9 witness: a booking has been posted from the confirmation dialog; it holds
\* the picked day and slot and the email and phone shown in the fields.
C9_Witness ==
  /\ Len(requests) = 1 /\ confirmationModalOpen
  /\ requests[1].email = emailField /\ requests[1].phone = phoneField
  /\ requests[1].date = FormatYDM(appointmentDate)
  /\ requests[1].slot = appointmentSlot

\* the step in which the client learns that the store write of its booking failed
WriteFailureStep ==
  \E j \in 1..Len(responses) :
    /\ responses[j].data = "error "
    /\ responses' = RemoveAt(responses, j)

\* C10 as stated: when the store write of a submitted booking fails, processed
\* stays unset and the notice is 'Appointment failed to save.'.
C10_WriteFailureReported ==
  [][WriteFailureStep =>
       /\ ~processed'
       /\ confirmationSnackbarMessage' = "Appointment failed to save."]_vars

\* C2 on the days the DatePicker lets the user pick: the statement of C2 holds
\* whenever a day has been picked, since a picked day is never FullyBooked.
C2_OnPickedDays ==
  (~loading /\ appointmentDate # NoDate) =>
    /\ DayState(appointmentDate) # "FullyBooked"
    /\ \A slot \in Slots :
         ~RadioDisabled(slot)
           <=> (MeridiemMatches(slot)
                /\ ~SlotTaken(schedule.days, appointmentDate, slot))

\* C11 as stated: once a submission has succeeded (processed is true), no
\* further create request is sent, whatever the user clicks.
C11_NoPostAfterSuccess == [][processed => ~SubmitStep]_vars

\* the step in which app.post writes an object to the store, and the request
\* it serves
StoredStep == Len(store') = Len(store) + 1
Served ==
  IF peer'.requests # peer.requests THEN Head(peer.requests)
  ELSE requests[CHOOSE i \in 1..Len(requests) : requests' = RemoveAt(requests, i)]

\* the step in which handleFetch runs in the second session
PeerFetchStep == peer.loading /\ ~peer'.loading

\* every stored record is under its own date string in `days`, with its slot taken
AllStoredTaken(days) ==
  \A k \in 1..Len(store) :
    /\ store[k].date \in DOMAIN days
    /\ SlotTaken(days, ParseYDM(store[k].date), store[k].slot)

\* C12: the date string handleSubmit sends is the YYYY-DD-MM string of the
\* picked day, the record the server stores carries the same string and slot,
\* and a session that loads afterwards has every stored record under that
\* string in its schedule, with the slot taken.
C12_StoredThenTaken ==
  [][/\ SubmitStep =>
          /\ appointmentDate \in Days
          /\ requests'[Len(requests')].date = FormatYDM(appointmentDate)
     /\ StoredStep =>
          /\ store'[Len(store')].date = Served.date
          /\ store'[Len(store')].slot = Served.slot
     /\ PeerFetchStep => AllStoredTaken(peer'.schedule.days)
     /\ FetchStep => AllStoredTaken(schedule'.days)]_vars

\* C12 witness: the first session has stored a booking for a slot that was free
\* when it loaded, and the second session, loaded afterwards, has it as taken.
C12_Witness ==
  /\ ~loading /\ ~peer.loading
  /\ \E k \in 1..Len(store) :
       /\ store[k].email = email
       /\ store[k].date = FormatYDM(appointmentDate)
       /\ store[k].slot = appointmentSlot
       /\ ~SlotTaken(schedule.days, appointmentDate, appointmentSlot)
       /\ SlotTaken(peer.schedule.days, appointmentDate, appointmentSlot)
       /\ IsArray(peer.schedule.days[store[k].date])

\* C13: the appointment handleSubmit posts is the draft (picked day in
\* YYYY-DD-MM, picked slot, first name, one space, last name, email, phone), and
\* the record the server stores for it has the same date, slot, name and email
\* and the phone with every non-digit character removed.
C13_RecordOfDraft ==
  [][/\ SubmitStep =>
          /\ appointmentDate \in Days /\ appointmentSlot \in Slots
          /\ requests'[Len(requests')] =
               [ date |-> <<2024, DayOfMonth(appointmentDate), MonthOf(appointmentDate)>>,
                 slot |-> appointmentSlot,
                 name |-> firstName \o <<" ">> \o lastName,
                 email |-> email,
                 phone |-> phone ]
     /\ StoredStep =>
          LET sent == Served
              record == store'[Len(store')]
              digitsAt == {i \in 1..Len(sent.phone) : sent.phone[i] \in Digits}
          IN /\ record.date = sent.date /\ record.slot = sent.slot
             /\ record.name = sent.name /\ record.email = sent.email
             /\ \A i \in 1..Len(record.phone) : record.phone[i] \in Digits
             /\ Len(record.phone) = Cardinality(digitsAt)
             /\ record.phone = SelectSeq(sent.phone, IsDigit)]_vars

\* C13 witness: with the dialog still open on the submitted draft, the store
\* holds its record: the picked day and slot, the name, the email, and the ten
\* digits of the phone that was typed with brackets, a space and a dash.
C13_Witness ==
  /\ confirmationModalOpen /\ store # <<>>
  /\ LET record == store[Len(store)]
     IN /\ record.date = FormatYDM(appointmentDate)
        /\ record.slot = appointmentSlot
        /\ record.name = firstName \o <<" ">> \o lastName
        /\ record.email = email
        /\ Len(phone) = 14 /\ Len(record.phone) = 10
        /\ \A i \in 1..10 : record.phone[i] = "8"

\* C14: the steps are gated in order: in every state the slot step or a later
\* one is active only if a day has been picked, and the contact step only if a
\* slot has been picked; a step is entered only with its gate open.
C14_StepsGated ==
  [][/\ stepIndex' >= 1 => appointmentDate' \in Days
     /\ stepIndex' >= 2 => appointmentSlot' \in Slots
     /\ (stepIndex' # stepIndex /\ stepIndex' = 1) =>
          (appointmentDate \in Days \/ stepIndex = 0)
     /\ (stepIndex' # stepIndex /\ stepIndex' = 2) =>
          (appointmentSlot \in Slots \/ stepIndex = 1)]_vars

\* C14 witness: the contact step is active, with a day and a slot picked.
C14_Witness ==
  /\ stepIndex = 2 /\ ~confirmationModalOpen
  /\ appointmentDate \in Days /\ appointmentSlot \in Slots
  /\ ~CheckDisableDate(appointmentDate)

\* C15: loading becomes false only in the step that ends the series, after the
\* config response and with the appointments response, and whenever loading is
\* false the schedule is set.
C15_LoadedAfterBoth ==
  [][/\ FetchStep => (mountStep = "appointments" /\ mountStep' = "done")
     /\ ~loading' => (schedule'.defined /\ mountStep' = "done")
     /\ loading' => ~schedule'.defined]_vars

\* C15 witness: both requests have completed, loading is false and the schedule
\* holds today's seed and the fetched bookings.
C15_Witness ==
  /\ ~loading /\ mountStep = "done" /\ schedule.defined
  /\ response # <<>>
  /\ Cardinality(DOMAIN schedule.days) >= 2

\* the step in which one of the two initial requests fails
FetchFailStep == mountStep # "hung" /\ mountStep' = "hung"

\* C16 as stated: when an initial request fails, handleFetchError runs: the
\* snackbar is opened with the notice 'Error fetching data'.
C16_FetchErrorShown ==
  [][FetchFailStep =>
       /\ confirmationSnackbarOpen'
       /\ confirmationSnackbarMessage' = "Error fetching data"]_vars

\* the store `objects` with other names, emails and phones: every record gets
\* the contact `contact`, varied with the position of the record
OtherContacts ==
  { [name |-> <<"X">>, email |-> <<"x", "@", "y", ".", "z", "z">>, phone |-> <<"0">>],
    [name |-> <<"A", " ", "B">>, email |-> <<>>, phone |-> <<"1", "1">>] }
Relabel(objects, contact) ==
  [i \in 1..Len(objects) |->
     [objects[i] EXCEPT !.name = contact.name \o (IF i % 2 = 0 THEN <<"2">> ELSE <<>>),
                        !.email = contact.email,
                        !.phone = contact.phone \o (IF i % 3 = 0 THEN <<"3">> ELSE <<>>)]]

\* C17: the response of GET /api/appointments holds only the date and the slot
\* of each appointment, and is the same for a store with the same (date, slot)
\* pairs and other names, emails and phones.
C17_OnlyDateAndSlot ==
  [][FetchStep =>
       /\ Len(response') = Len(store)
       /\ \A i \in 1..Len(response') :
            /\ DOMAIN response'[i] = {"date", "slot"}
            /\ response'[i].date = store[i].date /\ response'[i].slot = store[i].slot
       /\ \A contact \in OtherContacts :
            /\ Relabel(store, contact) # store
            /\ response' = ExposeAppointments(Relabel(store, contact))]_vars

\* C17 witness: the first session has loaded from a store that holds bookings
\* of two visitors with different names, emails and phones.
C17_Witness ==
  /\ ~loading /\ Len(response) = Len(store)
  /\ \E i, j \in 1..Len(store) :
       /\ store[i].name # store[j].name
       /\ store[i].email # store[j].email
       /\ store[i].phone # store[j].phone
  /\ \A i \in 1..Len(response) : DOMAIN response[i] = {"date", "slot"}

\* the step in which app.post hands an SMS to Twilio
SmsStep == Len(sms') = Len(sms) + 1

\* C18 as stated: whenever POST /api/appointments sends the SMS for a booking,
\* that booking is written to the store.
C18_SmsOnlyWhenStored ==
  [][(SmsStep /\ ~sms'[Len(sms')].err) =>
       /\ StoredStep
       /\ store'[Len(store')].name = sms'[Len(sms')].name]_vars

\* the answer app.post gives in this step
Answered(data) ==
  /\ Len(responses') = Len(responses) + 1
  /\ responses'[Len(responses')] = [resolved |-> TRUE, data |-> data]

\* C19: for every request and both outcomes of twilioClient.messages.create,
\* the store write is made: when Cosmic accepts it the object is stored and the
\* answer is 'succes', when Cosmic rejects it nothing is stored and the answer
\* is 'error '; in every step that serves a POST the answer follows the write.
C19_SmsNeverBlocks ==
  /\ [](\A i \in 1..Len(requests) : \A smsOk \in BOOLEAN :
          /\ ENABLED (ServerPost(i, smsOk, TRUE) /\ StoredStep /\ Answered("succes"))
          /\ ENABLED (ServerPost(i, smsOk, FALSE) /\ ~StoredStep /\ Answered("error ")))
  /\ [][SmsStep => \/ StoredStep /\ Answered("succes")
                   \/ store' = store /\ Answered("error ")]_vars

\* C19 witness: the SMS of a booking failed, the booking is in the store and
\* the answer on its way to the client is 'succes'.
C19_Witness ==
  /\ sms # <<>> /\ sms[Len(sms)].err
  /\ store # <<>> /\ store[Len(store)].name = sms[Len(sms)].name
  /\ store[Len(store)].email = email
  /\ responses = <<[resolved |-> TRUE, data |-> "succes"]>>

\* C20: neither handleSubmit nor the POST handler looks at the stored records:
\* the Confirm button posts the draft whatever the store holds, in both
\* sessions, and an accepted write appends the object also when the store
\* already has a record for the same (date, slot).
C20_WriteUnconditional ==
  /\ (confirmationModalOpen /\ posts < MaxPosts) =>
       ENABLED (HandleSubmit /\ requests' = Append(requests, SubmittedAppointment))
  /\ (peer.appointmentSlot # NoSlot /\ peer.posts < MaxPosts) => ENABLED PeerSubmit
  /\ \A i \in 1..Len(requests) :
       ENABLED (ServerPost(i, TRUE, TRUE)
                /\ store' = AddObject(store, CosmicObject(requests[i])))
  /\ peer.requests # <<>> =>
       ENABLED (PeerServerPost(TRUE, TRUE)
                /\ store' = AddObject(store, CosmicObject(Head(peer.requests))))

\* C20 witness: the two sessions loaded the same snapshot, in which the slot was
\* free, both submitted that (date, slot), and the store holds both records.
C20_Witness ==
  /\ ~loading /\ ~peer.loading
  /\ schedule = peer.schedule
  /\ appointmentDate = peer.appointmentDate /\ appointmentSlot = peer.appointmentSlot
  /\ appointmentDate \in Days /\ appointmentSlot \in Slots
  /\ ~SlotTaken(schedule.days, appointmentDate, appointmentSlot)
  /\ \E j, k \in 1..Len(store) :
       /\ j # k
       /\ store[j].date = FormatYDM(appointmentDate) /\ store[j].slot = appointmentSlot
       /\ store[k].date = store[j].date /\ store[k].slot = store[j].slot
       /\ store[j].email = email /\ store[k].email = PeerContact.email

\* the clock times 9:00 am .. 5:00 pm, as 'h:mm a' writes them
ClockFace ==
  << <<9, 0, "am">>, <<10, 0, "am">>, <<11, 0, "am">>, <<12, 0, "pm">>, <<1, 0, "pm">>,
     <<2, 0, "pm">>, <<3, 0, "pm">>, <<4, 0, "pm">>, <<5, 0, "pm">> >>

\* C22: slot s starts at 9:00 plus s hours and ends where slot s+1 starts, so
\* slot 0 is 9:00-10:00 and slot 7 is 16:00-17:00; the label of the slot's radio
\* button shows this start and end, and the SMS of a booking shows this start.
C22_SlotTimes ==
  [][/\ \A slot \in Slots :
          /\ SlotStartHour(slot) = 9 + slot
          /\ SlotLabel(slot).from = ClockFace[slot + 1]
          /\ SlotLabel(slot).to = ClockFace[slot + 2]
          /\ slot < NumSlots - 1 => SlotLabel(slot).to = SlotLabel(slot + 1).from
     /\ SmsStep =>
          /\ sms'[Len(sms')].time = SlotLabel(Served.slot).from
          /\ sms'[Len(sms')].time = ClockFace[Served.slot + 1]
          /\ sms'[Len(sms')].day = ParseYDM(Served.date)]_vars

\* C22 witness: the SMS of a booking for an afternoon slot has been handed to
\* Twilio, with the start time the slot's label shows.
C22_Witness ==
  /\ sms # <<>> /\ appointmentSlot \in 4..(NumSlots - 1)
  /\ sms[Len(sms)].time = SlotLabel(appointmentSlot).from
  /\ sms[Len(sms)].time[3] = "pm"
  /\ sms[Len(sms)].day = appointmentDate

\* C23 as stated: whenever handleSubmit sends a booking, its (date, slot) is
\* not taken in the schedule this session built at load.
C23_SubmittedSlotFree ==
  [][SubmitStep =>
       ~SlotTaken(schedule.days, appointmentDate, requests'[Len(requests')].slot)]_vars

\* C24 as stated: at every moment after the schedule was built, checkDisableDate
\* is true for the day that is then today.
C24_TodayNeverOffered == schedule.defined => CheckDisableDate(now)

C27_RowRecovered ==
  \A i \in 1..Len(admin.tableChildren) : \A msZero \in BOOLEAN :
    \A date \in Days, slot \in Slots :
      LET row == admin.tableChildren[i]
      IN (row.date = FormatMDY(date) /\ row.time = FormatHMMA(SlotStartHour(slot)))
           => /\ RecoverDate(row.date) = FormatYDM(date)
              /\ RecoverSlot(row.time, msZero) = slot


\* the callback of delete k reports a failure
DeleteFailedStep(k) == deletes[k].answered /\ deletes[k].err /\ DeleteCallback(k)

\* C21: when a store delete fails, the notice 'Failed to delete appointments'
\* is shown and the state of before the press is intact, so that the same
\* delete can be invoked again: the loaded appointments and the table rows are
\* those of before, rows are selected and the Delete button is enabled
C21_DeleteFailedKeepsState ==
  [][\A k \in 1..Len(deletes) :
       DeleteFailedStep(k) =>
         /\ admin'.snackbarMessage = "Failed to delete appointments"
         /\ ~admin'.snackbarDisabled
         /\ admin'.appointments = admin.appointments
         /\ admin'.tableChildren = admin.tableChildren
         /\ admin'.selectedRows # <<>>
         /\ ~admin'.deleteButtonDisabled]_vars


\* C26: in every reachable state the Delete button is enabled exactly when at
\* least one row is selected, also while a setTimeout of handleRowSelection is
\* pending and after handleDelete has cleared the selection
C26_ButtonIffSelection == ~admin.deleteButtonDisabled <=> admin.selectedRows # <<>>

\* C26, the part about handleDelete: with no timer pending, no selection means
\* no Delete button
C26_ButtonOffWhenSettled ==
  (timers = <<>> /\ admin.selectedRows = <<>>) => admin.deleteButtonDisabled


\* the rows show every appointment of `appointments`
ListsAll(rows, appointments) ==
  \A e \in 1..Len(appointments) : \A a \in 1..Len(appointments[e].items) :
    \E i \in 1..Len(rows) :
      /\ rows[i].date = FormatMDY(ParseYDM(appointments[e].date))
      /\ rows[i].time = FormatHMMA(SlotStartHour(appointments[e].items[a].slot))

\* C29: after the dropdown is switched to 'List All Appointments'
\* (handleToolbarDropdownChange with value 1) the date filter is reset and the
\* table lists every loaded appointment, whatever filter was active before
C29_ListAllListsAll ==
  [][HandleToolbarDropdownChange(1) =>
       /\ admin'.filteredAppointments = <<>>
       /\ admin'.datePickerDisabled
       /\ ListsAll(admin'.tableChildren, admin'.appointments)]_vars


\* the slugs of the loaded appointments that the row displays
ShownIn(row) ==
  UNION { { admin.appointments[e].items[a].slug :
              a \in { a \in 1..Len(admin.appointments[e].items) :
                        row.time = FormatHMMA(SlotStartHour(admin.appointments[e].items[a].slot)) } } :
          e \in { e \in 1..Len(admin.appointments) :
                    row.date = FormatMDY(ParseYDM(admin.appointments[e].date)) } }

\* the slugs displayed in the rows that are selected
SelectedSlugs ==
  UNION { ShownIn(admin.tableChildren[admin.selectedRows[k] + 1]) :
            k \in { k \in 1..Len(admin.selectedRows) :
                      admin.selectedRows[k] < Len(admin.tableChildren) } }

\* the slugs of the deleteObject calls that the step sends
SentSlugs == { deletes'[k].slug : k \in (Len(deletes) + 1)..Len(deletes') }

\* C25: pressing Delete deletes exactly the appointments displayed in the rows
\* that are selected at the time of the press: no deleteObject call is sent for
\* a row that is not selected
C25_DeletesTheSelected ==
  [][\A msZero \in BOOLEAN : HandleDelete(msZero) => SentSlugs = SelectedSlugs]_vars

\* C25, with the clock off the whole second and no slot 0 involved: a press
\* with no row selected sends no deleteObject call
C25_NoneSelectedNoneSent ==
  [][(HandleDelete(FALSE) /\ admin.selectedRows = <<>>) => SentSlugs = {}]_vars


\* Delete was pressed and every deleteObject callback and every getObjectType
\* callback has run
DeletesSettled == pressed > 0 /\ deletes = <<>> /\ fetches = <<>>

\* every row of the table displays a record of the bucket
RowsAreStored ==
  \A i \in 1..Len(admin.tableChildren) : \E j \in 1..Len(store) :
    /\ admin.tableChildren[i].date = FormatMDY(ParseYDM(store[j].date))
    /\ admin.tableChildren[i].time = FormatHMMA(SlotStartHour(store[j].slot))

\* C28: after a delete, once every delete callback and every re-fetch it
\* triggered has completed, in any order, the appointments held and displayed
\* by the view are the records remaining in the bucket: no deleted appointment
\* is displayed
C28_ViewIsStore ==
  DeletesSettled => (admin.appointments = GroupByDate(store, <<>>) /\ RowsAreStored)

\* C28, the appointments held alone
C28_HeldIsStore == DeletesSettled => admin.appointments = GroupByDate(store, <<>>)

====
